---- MODULE Spec2Model ----
(***************************************************************************)
(* Model of src/services/aiService.js: the Try-On client adapter.         *)
(*                                                                         *)
(* The file holds two variants of the same module.  The first (lines      *)
(* 1-189, "blob") keeps a process-wide cachedClient and sends the source  *)
(* images as in-memory Blobs.  The second (lines 191-355, "tempfile")     *)
(* connects on every call and sends the source images as temporary files. *)
(* A process runs one of them; `variant` says which.                      *)
(*                                                                         *)
(* Every `await` of an external operation is an interleaving point: the   *)
(* action that issues the call and the action that runs the continuation  *)
(* are separate, and the code between two awaits is one atomic action.    *)
(***************************************************************************)
EXTENDS Integers, Sequences, FiniteSets

\* ------------------------------------------------------------------ bounds
NumInv == 2
MaxTime == 1

Inv == 1..NumInv
Times == 0..MaxTime

\* --------------------------------------------------------------- constants
Null == 0
NoPath == <<>>
SPACE_ID == "yisol/IDM-VTON"

MsgNoToken == "HUGGINGFACE_API_KEY is required for IDM-VTON"
MsgUnexpected == "Unexpected output format from Gradio client"
MsgDefault == "Try-on processing failed"
MsgKeysOfNull == "Cannot convert undefined or null to object"
MsgReadUndefined == "Cannot read properties of undefined (reading '0')"
MsgConnect == "connect failed"
MsgDuplicate == "duplicate failed"
MsgAxios == "Request failed"
MsgPredict == "predict failed"
MsgENOENT == "ENOENT: no such file or directory"
MsgENOSPC == "ENOSPC: no space left on device"
NoMessage == ""

VARIABLES
    variant,          \* which of the two module variants the process runs
    hasToken,         \* !!process.env.HUGGINGFACE_API_KEY
    cachedClient,     \* the module-level cache (blob variant), Null or a handle
    nextHandle,       \* the next Client object Client.connect/duplicate makes
    now,              \* Date.now()
    fs,               \* os.tmpdir(): path -> the invocation that wrote it, 0 if absent
    pc,               \* where each performTryOn invocation is suspended
    client,           \* local `client`
    err,              \* the error a rejected helper promise carries
    startTime,        \* local `startTime`
    procTime,         \* local `processingTime` of the try block
    result,           \* local `result`
    personTempPath,   \* local `personTempPath` (tempfile variant)
    garmentTempPath,  \* local `garmentTempPath` (tempfile variant)
    written,          \* the paths each invocation's writeFileSync created
    envelope,         \* the envelope client.predict last resolved with, and the source read for it
    outcome,          \* what each invocation returned
    status            \* the checkModelStatus call: where it is and what it returned

vars == <<variant, hasToken, cachedClient, nextHandle, now, fs, pc, client, err,
          startTime, procTime, result, personTempPath, garmentTempPath, written, envelope, outcome,
          status>>

\* ------------------------------------------------------- remote outputs
\* One element of result.data, by the tests the code applies to it:
\* kind is what `typeof` and truthiness see; url/path/blob are meaningful
\* for objects, http for strings.
Out(k, u, p, h, b) == [kind |-> k, url |-> u, path |-> p, http |-> h, blob |-> b]

Undefined == Out("undefined", FALSE, FALSE, FALSE, FALSE)
NullOut == Out("null", FALSE, FALSE, FALSE, FALSE)
NumberOut == Out("number", FALSE, FALSE, FALSE, FALSE)
StringOut(h) == Out("string", FALSE, FALSE, h, FALSE)
ObjectOut(u, p, b) == Out("object", u, p, FALSE, b)

UrlOut == ObjectOut(TRUE, FALSE, FALSE)
PathOut == ObjectOut(FALSE, TRUE, FALSE)
BlobOut == ObjectOut(FALSE, FALSE, TRUE)
MaskOut == ObjectOut(TRUE, TRUE, FALSE)

Outputs ==
    {NullOut, NumberOut} \cup {StringOut(h) : h \in BOOLEAN}
    \cup {ObjectOut(u, p, b) : u \in BOOLEAN, p \in BOOLEAN, b \in BOOLEAN}

\* The envelope: result.data may be missing, and holds
\* [output_image, masked_image] when the remote keeps to its interface.
NoData == [hasData |-> FALSE, data |-> <<>>]
Envelope(s) == [hasData |-> TRUE, data |-> s]
NoResult == [hasData |-> FALSE, data |-> <<Undefined>>]

AllResults ==
    {NoData, Envelope(<<>>)}
    \cup {Envelope(<<o>>) : o \in Outputs}
    \cup {Envelope(<<o, m>>) : o \in Outputs, m \in {NullOut, MaskOut}}

SomeResults ==
    {Envelope(<<UrlOut, MaskOut>>), Envelope(<<BlobOut, MaskOut>>),
     Envelope(<<NumberOut, MaskOut>>)}

\* typeof d === 'object'
TypeofObject(d) == d.kind \in {"null", "object"}
Truthy(d) == d.kind \in {"number", "string", "object"}

\* line 117/274: result.data?.map(d => typeof d === 'object' ? Object.keys(d) : typeof d)
\* Object.keys(null) throws a TypeError.
LogThrows(res) ==
    res.hasData /\ \E k \in 1..Len(res.data) :
        TypeofObject(res.data[k]) /\ res.data[k].kind = "null"

\* line 120/277: result.data[0]
FirstOutput(res) == IF Len(res.data) >= 1 THEN res.data[1] ELSE Undefined

\* Faulty variant: the path test placed before the url test.
NormalizeBranch_PathFirst(o) ==
    IF Truthy(o) /\ o.path THEN "path"
    ELSE IF Truthy(o) /\ o.url THEN "url"
    ELSE IF o.kind = "string" /\ o.http THEN "string"
    ELSE IF o.kind = "object" /\ o.blob THEN "blob"
    ELSE "none"

\* lines 124-141 / 281-298: which branch the if/else chain takes
NormalizeBranch(o) ==
    IF Truthy(o) /\ o.url THEN "url"
    ELSE IF Truthy(o) /\ o.path THEN "path"
    ELSE IF o.kind = "string" /\ o.http THEN "string"
    ELSE IF o.kind = "object" /\ o.blob THEN "blob"
    ELSE "none"

\* ------------------------------------------------------------- outcomes
NoOutcome == [kind |-> "none", imageBuffer |-> "", error |-> "", processingTime |-> 0]
Success(src, t) ==
    [kind |-> "success", imageBuffer |-> src, error |-> "", processingTime |-> t]
Failure(msg, t) ==
    [kind |-> "failure", imageBuffer |-> "", error |-> msg, processingTime |-> t]
Thrown(msg) ==
    [kind |-> "thrown", imageBuffer |-> "", error |-> msg, processingTime |-> 0]

\* line 167/321: error.message || 'Try-on processing failed'
ErrorText(msg) == IF msg = NoMessage THEN MsgDefault ELSE msg

\* lines 179-182 / 345-348: what checkModelStatus returns
NoStatus == [pc |-> "idle", available |-> FALSE, status |-> "", error |-> ""]
Probing == [pc |-> "connecting", available |-> FALSE, status |-> "", error |-> ""]
Available == [pc |-> "done", available |-> TRUE, status |-> "Connected", error |-> ""]
Unavailable(msg) == [pc |-> "done", available |-> FALSE, status |-> "", error |-> msg]

\* ------------------------------------------------------------ temp files
Prefixes == {"person", "garment"}
Paths == {<<p, t>> : p \in Prefixes, t \in Times}

\* line 213: path.join(os.tmpdir(), `${prefix}_${Date.now()}.jpg`)
TempPath(prefix, t) == <<prefix, t>>

Exists(f, p) == p # NoPath /\ f[p] # 0
Unlink(f, p) == [f EXCEPT ![p] = 0]

\* lines 326-335: the finally block.  failP / failG say whether unlinkSync
\* throws for the person / garment file; a throw leaves the try block.
CleanupFs(f, p, g, failP, failG) ==
    LET delP == p # NoPath /\ Exists(f, p)
        f1 == IF delP /\ ~failP THEN Unlink(f, p) ELSE f
        delG == g # NoPath /\ Exists(f1, g)
    IN  IF delP /\ failP THEN f
        ELSE IF delG /\ ~failG THEN Unlink(f1, g)
        ELSE f1

\* ----------------------------------------------------------------- init
Init ==
    /\ variant \in {"blob", "tempfile"}
    /\ hasToken \in BOOLEAN
    /\ cachedClient = Null
    /\ nextHandle = 1
    /\ now = 0
    /\ fs = [p \in Paths |-> 0]
    /\ pc = [i \in Inv |-> "idle"]
    /\ client = [i \in Inv |-> Null]
    /\ err = [i \in Inv |-> NoMessage]
    /\ startTime = [i \in Inv |-> 0]
    /\ procTime = [i \in Inv |-> 0]
    /\ result = [i \in Inv |-> NoResult]
    /\ personTempPath = [i \in Inv |-> NoPath]
    /\ garmentTempPath = [i \in Inv |-> NoPath]
    /\ written = [i \in Inv |-> {}]
    /\ envelope = [res |-> NoResult, read |-> ""]
    /\ outcome = [i \in Inv |-> NoOutcome]
    /\ status = NoStatus

\* -------------------------------------------------------------- helpers
\* Faulty variant: the cache is never consulted.
GetClientHit_Never(c) == FALSE

\* line 33: if (cachedClient)
GetClientHit(c) == c # Null

\* Faulty variant: a handle already cached is kept (first write wins).
CacheAfterConnect_FirstWins(c, h) == IF c = Null THEN h ELSE c

\* lines 48 and 59: cachedClient = await Client.connect(...) / Client.duplicate(...)
CacheAfterConnect(c, h) == h

\* Faulty variant: the catch block leaves the cache alone.
CacheAfterCatch_Keeps(c) == c

\* line 162: cachedClient = null
CacheAfterCatch(c) == Null

\* Faulty variant: the format error is thrown outside the try block.
OutcomeOnError_Escapes(msg, t) ==
    IF msg = MsgUnexpected THEN Thrown(msg) ELSE Failure(ErrorText(msg), t)

\* lines 165-169 / 319-323: the value the catch block returns
OutcomeOnError(msg, t) == Failure(ErrorText(msg), t)

\* The invocation returns o.  In the tempfile variant the finally block
\* (lines 324-336) runs first; the locals go out of scope.
Return(i, o) ==
    /\ pc' = [pc EXCEPT ![i] = "done"]
    /\ outcome' = [outcome EXCEPT ![i] = o]
    /\ client' = [client EXCEPT ![i] = Null]
    /\ err' = [err EXCEPT ![i] = NoMessage]
    /\ startTime' = [startTime EXCEPT ![i] = 0]
    /\ procTime' = [procTime EXCEPT ![i] = 0]
    /\ result' = [result EXCEPT ![i] = NoResult]
    /\ personTempPath' = [personTempPath EXCEPT ![i] = NoPath]
    /\ garmentTempPath' = [garmentTempPath EXCEPT ![i] = NoPath]
    /\ IF variant = "tempfile"
       THEN \E failP \in BOOLEAN, failG \in BOOLEAN :
                fs' = CleanupFs(fs, personTempPath[i], garmentTempPath[i], failP, failG)
       ELSE fs' = fs

\* Faulty variant: the catch block empties the cache only when it holds the
\* handle the failing invocation was using.
Catch_OwnHandleOnly(i, msg) ==
    /\ \E t \in now..MaxTime :
        /\ now' = t
        /\ Return(i, OutcomeOnError(msg, t - startTime[i]))
    /\ cachedClient' = IF variant = "blob" /\ client[i] = cachedClient
                       THEN CacheAfterCatch(cachedClient)
                       ELSE cachedClient

\* lines 149-170 / 306-323: the catch block, entered with an error whose
\* message is msg.  It reads Date.now() again.
Catch(i, msg) ==
    /\ \E t \in now..MaxTime :
        /\ now' = t
        /\ Return(i, OutcomeOnError(msg, t - startTime[i]))
    /\ cachedClient' = IF variant = "blob" THEN CacheAfterCatch(cachedClient)
                       ELSE cachedClient

\* ------------------------------------------------------------- actions
\* performTryOn is called: lines 73-79 with getClient's lines 32-50 (blob),
\* lines 223-237 (tempfile), up to the first await.
Start(i) ==
    /\ pc[i] = "idle"
    /\ \E t \in now..MaxTime :
        /\ now' = t
        /\ startTime' = [startTime EXCEPT ![i] = t]
    /\ IF variant = "blob" /\ GetClientHit(cachedClient)
       THEN /\ client' = [client EXCEPT ![i] = cachedClient]
            /\ pc' = [pc EXCEPT ![i] = "fetchPerson"]
            /\ err' = err
       ELSE IF variant = "blob" /\ ~hasToken
       THEN /\ pc' = [pc EXCEPT ![i] = "rejected"]
            /\ err' = [err EXCEPT ![i] = MsgNoToken]
            /\ client' = client
       ELSE /\ pc' = [pc EXCEPT ![i] = "connecting"]
            /\ UNCHANGED <<client, err>>
    /\ UNCHANGED <<status, variant, hasToken, cachedClient, nextHandle, fs, procTime, result,
                   personTempPath, garmentTempPath, written,
                   envelope, outcome>>

\* Client.connect resolves: lines 48-52 and 83 (blob), 235-241 (tempfile).
ConnectOk(i) ==
    /\ pc[i] = "connecting"
    /\ nextHandle' = nextHandle + 1
    /\ cachedClient' = IF variant = "blob"
                       THEN CacheAfterConnect(cachedClient, nextHandle)
                       ELSE cachedClient
    /\ client' = [client EXCEPT ![i] = IF variant = "blob" THEN cachedClient'
                                       ELSE nextHandle]
    /\ pc' = [pc EXCEPT ![i] = "fetchPerson"]
    /\ UNCHANGED <<status, variant, hasToken, now, fs, err, startTime, procTime, result,
                   personTempPath, garmentTempPath, written, envelope, outcome>>

\* Client.connect rejects: lines 53-63 (blob: fall back to Client.duplicate),
\* the catch block (tempfile).
ConnectFail(i) ==
    /\ pc[i] = "connecting"
    /\ IF variant = "blob"
       THEN /\ pc' = [pc EXCEPT ![i] = "duplicating"]
            /\ UNCHANGED <<cachedClient, now, fs, client, err, startTime, procTime,
                           result, personTempPath, garmentTempPath, outcome>>
       ELSE Catch(i, MsgConnect)
    /\ UNCHANGED <<status, variant, hasToken, nextHandle, written, envelope>>

\* Client.duplicate resolves: lines 59-65 and 83.
DuplicateOk(i) ==
    /\ pc[i] = "duplicating"
    /\ nextHandle' = nextHandle + 1
    /\ cachedClient' = CacheAfterConnect(cachedClient, nextHandle)
    /\ client' = [client EXCEPT ![i] = cachedClient']
    /\ pc' = [pc EXCEPT ![i] = "fetchPerson"]
    /\ UNCHANGED <<status, variant, hasToken, now, fs, err, startTime, procTime, result,
                   personTempPath, garmentTempPath, written, envelope, outcome>>

\* Faulty variant: a failed duplicate goes back to Client.connect.
DuplicateFail_Retries(i) ==
    /\ pc[i] = "duplicating"
    /\ pc' = [pc EXCEPT ![i] = "connecting"]
    /\ UNCHANGED <<status, variant, hasToken, cachedClient, nextHandle, now, fs, client, err,
                   startTime, procTime, result, personTempPath, garmentTempPath,
                   written, envelope, outcome>>

\* Faulty variant: the rejected attempt is left in the cache.
DuplicateFail_CachesAttempt(i) ==
    /\ pc[i] = "duplicating"
    /\ pc' = [pc EXCEPT ![i] = "rejected"]
    /\ err' = [err EXCEPT ![i] = MsgDuplicate]
    /\ cachedClient' = nextHandle
    /\ UNCHANGED <<status, variant, hasToken, nextHandle, now, fs, client,
                   startTime, procTime, result, personTempPath, garmentTempPath,
                   written, envelope, outcome>>

\* Client.duplicate rejects: getClient's promise rejects (line 59).
DuplicateFail(i) ==
    /\ pc[i] = "duplicating"
    /\ pc' = [pc EXCEPT ![i] = "rejected"]
    /\ err' = [err EXCEPT ![i] = MsgDuplicate]
    /\ UNCHANGED <<status, variant, hasToken, cachedClient, nextHandle, now, fs, client,
                   startTime, procTime, result, personTempPath, garmentTempPath,
                   written, envelope, outcome>>

\* performTryOn resumes from an await of a helper (getClient, fetchImageBlob,
\* downloadToTempFile) whose promise rejected: the catch block.
Rejected(i) ==
    /\ pc[i] = "rejected"
    /\ Catch(i, err[i])
    /\ UNCHANGED <<status, variant, hasToken, nextHandle, written, envelope>>

\* lines 210-216: downloadToTempFile after its axios.get resolved, at time t.
\* w is what writeFileSync does: "ok", "partial" (the file is created and the
\* write then throws) or "fail" (it throws before creating the file).
WriteTemp(i, prefix, t, w) ==
    /\ now' = t
    /\ fs' = IF w \in {"ok", "partial"} THEN [fs EXCEPT ![TempPath(prefix, t)] = i]
             ELSE fs
    /\ written' = IF w \in {"ok", "partial"}
                  THEN [written EXCEPT ![i] = @ \cup {TempPath(prefix, t)}]
                  ELSE written

\* The person image's axios.get resolves: lines 24-25 and 83-84 (blob),
\* lines 211-215 and 241-242 (tempfile).
FetchPersonOk(i) ==
    /\ pc[i] = "fetchPerson"
    /\ IF variant = "blob"
       THEN /\ pc' = [pc EXCEPT ![i] = "fetchGarment"]
            /\ UNCHANGED <<now, fs, written, personTempPath, err>>
       ELSE \E t \in now..MaxTime, w \in {"ok", "partial", "fail"} :
            /\ WriteTemp(i, "person", t, w)
            /\ IF w = "ok"
               THEN /\ personTempPath' =
                          [personTempPath EXCEPT ![i] = TempPath("person", t)]
                    /\ pc' = [pc EXCEPT ![i] = "fetchGarment"]
                    /\ err' = err
               ELSE /\ pc' = [pc EXCEPT ![i] = "rejected"]
                    /\ err' = [err EXCEPT ![i] = MsgENOSPC]
                    /\ UNCHANGED personTempPath
    /\ UNCHANGED <<status, variant, hasToken, cachedClient, nextHandle, client, startTime,
                   procTime, result, garmentTempPath,
                   envelope, outcome>>

\* The garment image's axios.get resolves: lines 24-25 and 84-113 (blob),
\* lines 211-215 and 242-270 (tempfile).  client.predict is called.
FetchGarmentOk(i) ==
    /\ pc[i] = "fetchGarment"
    /\ IF variant = "blob"
       THEN /\ pc' = [pc EXCEPT ![i] = "predicting"]
            /\ UNCHANGED <<now, fs, written, garmentTempPath, err>>
       ELSE \E t \in now..MaxTime, w \in {"ok", "partial", "fail"} :
            /\ WriteTemp(i, "garment", t, w)
            /\ IF w = "ok"
               THEN /\ garmentTempPath' =
                          [garmentTempPath EXCEPT ![i] = TempPath("garment", t)]
                    /\ pc' = [pc EXCEPT ![i] = "predicting"]
                    /\ err' = err
               ELSE /\ pc' = [pc EXCEPT ![i] = "rejected"]
                    /\ err' = [err EXCEPT ![i] = MsgENOSPC]
                    /\ UNCHANGED garmentTempPath
    /\ UNCHANGED <<status, variant, hasToken, cachedClient, nextHandle, client, startTime,
                   procTime, result, personTempPath,
                   envelope, outcome>>

\* Faulty variant: a failed fetch is swallowed and the remote call goes out.
FetchFail_Swallowed(i) ==
    /\ pc[i] \in {"fetchPerson", "fetchGarment"}
    /\ pc' = [pc EXCEPT ![i] = "predicting"]
    /\ err' = [err EXCEPT ![i] = MsgAxios]
    /\ UNCHANGED <<status, variant, hasToken, cachedClient, nextHandle, now, fs, client,
                   startTime, procTime, result, personTempPath, garmentTempPath,
                   written, envelope, outcome>>

\* A source image's axios.get rejects: the helper's promise rejects
\* (line 24 / line 211).
FetchFail(i) ==
    /\ pc[i] \in {"fetchPerson", "fetchGarment"}
    /\ pc' = [pc EXCEPT ![i] = "rejected"]
    /\ err' = [err EXCEPT ![i] = MsgAxios]
    /\ UNCHANGED <<status, variant, hasToken, cachedClient, nextHandle, now, fs, client,
                   startTime, procTime, result, personTempPath, garmentTempPath,
                   written, envelope, outcome>>

\* What the remote and the data sources saw last: client.predict resolved
\* with the envelope res and its normalization went to the source `read`.
Seen(res, read) == envelope' = [res |-> res, read |-> read]

\* client.predict resolves with the envelope res: lines 115-147 (blob),
\* 272-304 (tempfile), up to the next await or the return.
PredictOk(i, R) ==
    /\ pc[i] = "predicting"
    /\ \E res \in R :
        IF LogThrows(res)
        THEN Catch(i, MsgKeysOfNull) /\ Seen(res, "")
        ELSE IF ~res.hasData
        THEN Catch(i, MsgReadUndefined) /\ Seen(res, "")
        ELSE LET branch == NormalizeBranch(FirstOutput(res)) IN
             IF branch = "none"
             THEN Catch(i, MsgUnexpected) /\ Seen(res, "")
             ELSE IF branch = "path"
             THEN /\ Seen(res, "path")
                  /\ \/ \E t \in now..MaxTime :
                         /\ now' = t
                         /\ Return(i, Success("path", t - startTime[i]))
                         /\ UNCHANGED cachedClient
                     \/ Catch(i, MsgENOENT)
             ELSE /\ Seen(res, branch)
                  /\ \E t \in now..MaxTime :
                     /\ now' = t
                     /\ procTime' = [procTime EXCEPT ![i] = t - startTime[i]]
                  /\ result' = [result EXCEPT ![i] = res]
                  /\ pc' = [pc EXCEPT ![i] = IF branch = "blob" THEN "blobRead"
                                             ELSE "fetchResult"]
                  /\ UNCHANGED <<cachedClient, fs, client, err, startTime,
                                 personTempPath, garmentTempPath, outcome>>
    /\ UNCHANGED <<status, variant, hasToken, nextHandle, written>>

\* Faulty variant: a rejected client.predict is issued again after a delay.
PredictFail_Retries(i) ==
    /\ pc[i] = "predicting"
    /\ \E t \in (now + 1)..MaxTime : now' = t
    /\ UNCHANGED <<status, variant, hasToken, cachedClient, nextHandle, fs, pc, client,
                   err, startTime, procTime, result, personTempPath, garmentTempPath,
                   written, envelope, outcome>>

\* client.predict rejects: the catch block.  The rejection value of the
\* Gradio client need not carry a message.
PredictFail(i) ==
    /\ pc[i] = "predicting"
    /\ \E m \in {NoMessage, MsgPredict} : Catch(i, m)
    /\ UNCHANGED <<status, variant, hasToken, nextHandle, written, envelope>>

\* Faulty variant: the cache is also cleared when the invocation succeeds.
FetchResultOk_Invalidates(i) ==
    /\ pc[i] = "fetchResult"
    /\ Return(i, Success(NormalizeBranch(FirstOutput(result[i])), procTime[i]))
    /\ cachedClient' = Null
    /\ UNCHANGED <<status, variant, hasToken, nextHandle, now, written, envelope>>

\* The result image's axios.get resolves: lines 127-128 / 134-135 and 143-147.
FetchResultOk(i) ==
    /\ pc[i] = "fetchResult"
    /\ Return(i, Success(NormalizeBranch(FirstOutput(result[i])), procTime[i]))
    /\ UNCHANGED <<status, variant, hasToken, cachedClient, nextHandle, now, written, envelope>>

\* The result image's axios.get rejects: the catch block.
FetchResultFail(i) ==
    /\ pc[i] = "fetchResult"
    /\ Catch(i, MsgAxios)
    /\ UNCHANGED <<status, variant, hasToken, nextHandle, written, envelope>>

\* outputImage.arrayBuffer() resolves: lines 137 and 143-147.
BlobRead(i) ==
    /\ pc[i] = "blobRead"
    /\ Return(i, Success("blob", procTime[i]))
    /\ UNCHANGED <<status, variant, hasToken, cachedClient, nextHandle, now, written, envelope>>

\* Wall-clock time passes while an invocation is suspended in an await;
\* the next Date.now() (lines 74, 115, 164 / 225, 272, 316) reads it.
Tick ==
    /\ now < MaxTime
    /\ now' = now + 1
    /\ UNCHANGED <<status, variant, hasToken, cachedClient, nextHandle, fs, pc, client,
                   err, startTime, procTime, result, personTempPath, garmentTempPath,
                   written, envelope, outcome>>

\* checkModelStatus is called: lines 176-178 / 342-344, up to the await of
\* Client.connect.
CheckModelStatus ==
    /\ status.pc = "idle"
    /\ status' = Probing
    /\ UNCHANGED <<nextHandle, variant, hasToken, cachedClient, now, fs, pc, client, err,
                   startTime, procTime, result, personTempPath, garmentTempPath,
                   written, envelope, outcome>>

\* Faulty variant: the probe stores the handle it made in the cache.
StatusConnectOk_Caches ==
    /\ status.pc = "connecting"
    /\ nextHandle' = nextHandle + 1
    /\ cachedClient' = nextHandle
    /\ status' = Available
    /\ UNCHANGED <<variant, hasToken, now, fs, pc, client, err,
                   startTime, procTime, result, personTempPath, garmentTempPath,
                   written, envelope, outcome>>

\* The probe's Client.connect resolves: lines 178-179 / 344-345.  The Client
\* it made is dropped.
StatusConnectOk ==
    /\ status.pc = "connecting"
    /\ nextHandle' = nextHandle + 1
    /\ status' = Available
    /\ UNCHANGED <<variant, hasToken, cachedClient, now, fs, pc, client, err,
                   startTime, procTime, result, personTempPath, garmentTempPath,
                   written, envelope, outcome>>

\* The probe's Client.connect rejects: lines 180-182 / 346-348.
StatusConnectFail ==
    /\ status.pc = "connecting"
    /\ \E m \in {NoMessage, MsgConnect} : status' = Unavailable(m)
    /\ UNCHANGED <<nextHandle, variant, hasToken, cachedClient, now, fs, pc, client, err,
                   startTime, procTime, result, personTempPath, garmentTempPath,
                   written, envelope, outcome>>

\* ------------------------------------------------------- specifications
Step(i, R) ==
    \/ Start(i)
    \/ ConnectOk(i)
    \/ ConnectFail(i)
    \/ DuplicateOk(i)
    \/ DuplicateFail(i)
    \/ Rejected(i)
    \/ FetchPersonOk(i)
    \/ FetchGarmentOk(i)
    \/ FetchFail(i)
    \/ PredictOk(i, R)
    \/ PredictFail(i)
    \/ FetchResultOk(i)
    \/ FetchResultFail(i)
    \/ BlobRead(i)

\* The blob variant under concurrent invocations; the remote answers with
\* one of SomeResults.
InitBlob == Init /\ variant = "blob"

Next == \E i \in Inv : Step(i, SomeResults)

Spec == InitBlob /\ [][Next]_vars

\* The same, with every awaited operation settling in the end and the event
\* loop then running the continuation: an invocation that was called and has
\* not returned takes its next step.
Resume(i) == pc[i] # "idle" /\ Step(i, SomeResults)

FairSpec == Spec /\ \A i \in Inv : WF_vars(Resume(i))

\* Either variant, one invocation; the remote answers with any envelope.
NextOne == Step(1, AllResults)

SpecOne == Init /\ [][NextOne]_vars

\* Either variant, one invocation, with the clock running during the awaits.
NextClock ==
    \/ Step(1, AllResults)
    \/ Tick

SpecClock == Init /\ [][NextClock]_vars

\* The tempfile variant under concurrent invocations.  It has no getClient,
\* so no Client.duplicate.
InitTemp == Init /\ variant = "tempfile"

StepTemp(i, R) ==
    \/ Start(i)
    \/ ConnectOk(i)
    \/ ConnectFail(i)
    \/ Rejected(i)
    \/ FetchPersonOk(i)
    \/ FetchGarmentOk(i)
    \/ FetchFail(i)
    \/ PredictOk(i, R)
    \/ PredictFail(i)
    \/ FetchResultOk(i)
    \/ FetchResultFail(i)
    \/ BlobRead(i)

NextTemp == \E i \in Inv : StepTemp(i, SomeResults)

SpecTemp == InitTemp /\ [][NextTemp]_vars

\* The blob variant with a checkModelStatus call running beside a
\* performTryOn invocation.
NextStatus ==
    \/ Step(1, SomeResults)
    \/ CheckModelStatus
    \/ StatusConnectOk
    \/ StatusConnectFail

SpecStatus == InitBlob /\ [][NextStatus]_vars

\* ---------------------------------------------------------------- claims
Returned(i) == pc[i] = "done"
Fails(i) == outcome[i].kind # "failure" /\ outcome'[i].kind = "failure"
Acquires(i) == pc[i] \in {"connecting", "duplicating"} /\ pc'[i] = "fetchPerson"
Calls(i) == pc[i] = "idle" /\ pc'[i] # "idle"

\* C1: no exception escapes performTryOn.  An invocation that has returned
\* returned a success or a failure outcome, never a thrown error, and a
\* failure outcome carries a non-empty error text and a processing time >= 0.
C1_NoExceptionEscapes ==
    \A i \in Inv :
        /\ outcome[i].kind # "thrown"
        /\ Returned(i) => outcome[i].kind \in {"success", "failure"}
        /\ outcome[i].kind = "failure" =>
              outcome[i].error # NoMessage /\ outcome[i].processingTime \in Times

\* A failure in result normalization came back as a failure outcome.
C1_Witness ==
    Returned(1) /\ outcome[1].kind = "failure" /\ outcome[1].error = MsgUnexpected

\* C2: with the credential missing, performTryOn issues no network call
\* (no connect, duplicate, image fetch or remote call is ever in flight) and
\* returns the failure outcome with the configuration message.
C2_NoNetworkWithoutCredential ==
    ~hasToken =>
        \A i \in Inv :
            /\ pc[i] \in {"idle", "rejected", "done"}
            /\ Returned(i) =>
                  outcome[i].kind = "failure" /\ outcome[i].error = MsgNoToken

\* C3: an invocation that calls getClient while a handle is cached takes the
\* cached handle without connecting (no handle is made, the cache is left as
\* it is), and an invocation past its acquire never connects or duplicates.
C3_CachedHandleReused ==
    [][\A i \in Inv :
        /\ (Calls(i) /\ cachedClient # Null) =>
              /\ client'[i] = cachedClient
              /\ pc'[i] = "fetchPerson"
              /\ nextHandle' = nextHandle
              /\ cachedClient' = cachedClient
        /\ pc[i] \notin {"idle", "connecting", "duplicating"} =>
              pc'[i] \notin {"connecting", "duplicating"}]_vars

\* A second invocation runs with the one handle that was ever made.
C3_Witness ==
    \E i, j \in Inv :
        /\ Returned(j) /\ outcome[j].kind = "success"
        /\ pc[i] = "fetchPerson" /\ client[i] = cachedClient
        /\ cachedClient # Null /\ nextHandle = 2

\* C4: the step in which an invocation returns a failure outcome leaves the
\* cache empty, whatever step failed.
C4_FailureInvalidates ==
    [][\A i \in Inv : Fails(i) => cachedClient' = Null]_vars

\* A failure after the handle was cached (here: in the result fetch) emptied
\* the cache.
C4_Witness ==
    \E i \in Inv :
        /\ Returned(i) /\ outcome[i].kind = "failure" /\ outcome[i].error = MsgAxios
        /\ nextHandle = 2 /\ cachedClient = Null
        /\ envelope.read = "url"

\* C5: when an invocation of the tempfile variant has returned, no file it
\* wrote is left in the temporary directory.
C5_NoTempFileOutlives ==
    \A i \in Inv : Returned(i) => \A p \in written[i] : fs[p] # i

\* The handles that are cached or in use by an invocation in flight.
LiveHandles == ({cachedClient} \cup {client[i] : i \in Inv}) \ {Null}

\* C6 (as claimed): at most one session handle is live at a time.
C6_AtMostOneLive == Cardinality(LiveHandles) <= 1

\* C6 (amended): a cached handle is reused by every acquire and stays cached
\* until a failure empties the cache or an acquire that was already
\* connecting replaces it.
C6_CachedUntilInvalidated ==
    [][/\ \A i \in Inv :
            (Calls(i) /\ cachedClient # Null) => client'[i] = cachedClient
       /\ (cachedClient # Null /\ cachedClient' # cachedClient) =>
            \/ \E i \in Inv : Fails(i) /\ cachedClient' = Null
            \/ \E i \in Inv : Acquires(i) /\ cachedClient' = client'[i]]_vars

\* Two handles are live: an invocation in flight uses a handle that is not
\* the cached one.
C6_Witness ==
    \E i \in Inv : cachedClient # Null /\ client[i] \notin {Null, cachedClient}

\* C7: the normalizer takes the first matching branch, in the order url,
\* path, http string, blob, and reads that source only; with no match
\* nothing is read and the invocation fails.
NormalizerRan ==
    envelope.res # NoResult /\ envelope.res.hasData /\ ~LogThrows(envelope.res)

C7_NormalizerPrecedence ==
    NormalizerRan =>
        LET o == FirstOutput(envelope.res)
            isUrl == Truthy(o) /\ o.url
            isPath == Truthy(o) /\ o.path
            isString == o.kind = "string" /\ o.http
            isBlob == o.kind = "object" /\ o.blob
        IN  /\ isUrl => envelope.read = "url"
            /\ (~isUrl /\ isPath) => envelope.read = "path"
            /\ (~isUrl /\ ~isPath /\ isString) => envelope.read = "string"
            /\ (~isUrl /\ ~isPath /\ ~isString /\ isBlob) => envelope.read = "blob"
            /\ (~isUrl /\ ~isPath /\ ~isString /\ ~isBlob) =>
                  envelope.read = "" /\ outcome[1].kind = "failure"
            /\ outcome[1].kind = "success" => outcome[1].imageBuffer = envelope.read

\* An output with both a url and a path was fetched by its url.
C7_Witness ==
    /\ FirstOutput(envelope.res) = ObjectOut(TRUE, TRUE, FALSE)
    /\ envelope.read = "url"
    /\ Returned(1) /\ outcome[1].kind = "success" /\ outcome[1].imageBuffer = "url"

\* C8: when the first output matches none of the four recognized shapes the
\* outcome is the failure "Unexpected output format from Gradio client", and
\* a success outcome carries the bytes of one of the four sources.
C8_UnrecognizedIsFormatError ==
    (Returned(1) /\ envelope.res # NoResult /\ envelope.res.hasData) =>
        LET o == FirstOutput(envelope.res)
            recognized == \/ Truthy(o) /\ (o.url \/ o.path)
                          \/ o.kind = "string" /\ o.http
                          \/ o.kind = "object" /\ o.blob
        IN  /\ ~recognized =>
                  outcome[1].kind = "failure" /\ outcome[1].error = MsgUnexpected
            /\ outcome[1].kind = "success" =>
                  outcome[1].imageBuffer \in {"url", "path", "string", "blob"}

\* C9: creation is not single-flight.  An invocation that finds the cache
\* empty connects whether or not another one is connecting; an invocation
\* that completes its acquire continues with the handle it obtained itself
\* and that handle becomes the cached one; so the cache, when not empty,
\* holds the handle assigned last.
C9_LastWriteWins ==
    /\ [](cachedClient \in {Null, nextHandle - 1})
    /\ [][\A i \in Inv :
            /\ (Calls(i) /\ cachedClient = Null /\ hasToken) =>
                  pc'[i] = "connecting"
            /\ Acquires(i) =>
                  /\ client'[i] = nextHandle
                  /\ cachedClient' = nextHandle
                  /\ nextHandle' = nextHandle + 1]_vars

\* Both invocations connected, each holds its own handle, and the cache
\* holds the later one.
C9_Witness ==
    \E i, j \in Inv :
        /\ client[i] # Null /\ client[j] # Null /\ client[i] < client[j]
        /\ cachedClient = client[j]

\* C10: two-tier fallback, no retry.  Client.connect is called when
\* getClient finds no cached handle and a credential, and only then;
\* Client.duplicate is called when that connect fails, and only then; a
\* successful connect or duplicate caches and returns the new handle; a
\* failed duplicate writes nothing to the cache, rejects with its error, and
\* the invocation then returns a failure with the cache empty.
C10_TwoTierFallback ==
    [][\A i \in Inv :
        /\ (Calls(i) /\ cachedClient = Null /\ hasToken) => pc'[i] = "connecting"
        /\ (pc[i] # "connecting" /\ pc'[i] = "connecting") =>
              Calls(i) /\ cachedClient = Null /\ hasToken
        /\ (pc[i] # "duplicating" /\ pc'[i] = "duplicating") => pc[i] = "connecting"
        /\ (pc[i] = "connecting" /\ pc'[i] # "connecting") =>
              \/ pc'[i] = "duplicating" /\ cachedClient' = cachedClient
              \/ Acquires(i) /\ cachedClient' = client'[i] /\ client'[i] # Null
        /\ (pc[i] = "duplicating" /\ pc'[i] # "duplicating") =>
              \/ Acquires(i) /\ cachedClient' = client'[i] /\ client'[i] # Null
              \/ /\ pc'[i] = "rejected" /\ err'[i] = MsgDuplicate
                 /\ cachedClient' = cachedClient
        /\ (pc[i] = "rejected" /\ err[i] = MsgDuplicate /\ pc'[i] # "rejected") =>
              /\ outcome'[i].kind = "failure" /\ outcome'[i].error = MsgDuplicate
              /\ cachedClient' = Null]_vars

\* Connect and duplicate both failed and the invocation returned that failure.
C10_Witness ==
    \E i \in Inv :
        /\ Returned(i) /\ outcome[i].kind = "failure"
        /\ outcome[i].error = MsgDuplicate
        /\ cachedClient = Null

\* C11: checkModelStatus makes one direct connection attempt and nothing
\* else: it starts connecting only when called, its connect ends the call
\* with {available: true, status} or {available: false, error}, and no step
\* of it touches the cache or a performTryOn invocation, whatever the cache
\* holds and wherever the invocation is.
C11_StatusProbeIsolated ==
    /\ [](status.pc \in {"idle", "connecting", "done"})
    /\ [](status.pc = "done" =>
            \/ status.available /\ status.status = "Connected"
            \/ ~status.available /\ status.status = "")
    /\ [][status' # status =>
            /\ cachedClient' = cachedClient
            /\ pc' = pc /\ client' = client /\ outcome' = outcome
            /\ \/ status.pc = "idle" /\ status'.pc = "connecting"
               \/ status.pc = "connecting" /\ status'.pc = "done"]_vars

\* The probe failed while a handle was cached, and the handle is still cached.
C11_Witness ==
    /\ status.pc = "done" /\ ~status.available /\ status.error = MsgConnect
    /\ cachedClient # Null /\ pc[1] = "predicting"

\* C12: the remote call is not retried.  An invocation issues client.predict
\* only on coming from the garment fetch; the step that ends the call leaves
\* it for good (to the result read or to the return), a rejected call ends
\* in the failure outcome in that same step, and nothing leads back to it.
C12_RemoteCallNotRetried ==
    [][\A i \in Inv :
        /\ (pc[i] # "predicting" /\ pc'[i] = "predicting") => pc[i] = "fetchGarment"
        /\ (pc[i] = "predicting" /\ (pc'[i] # pc[i] \/ now' # now)) =>
              pc'[i] \in {"fetchResult", "blobRead", "done"}
        /\ (pc[i] = "predicting" /\ pc'[i] # pc[i] /\ envelope' = envelope) =>
              /\ pc'[i] = "done" /\ outcome'[i].kind = "failure"
              /\ outcome'[i].error \in {MsgPredict, MsgDefault}
        /\ pc[i] \in {"fetchResult", "blobRead"} => pc'[i] \in {pc[i], "done"}
        /\ pc[i] = "done" => pc'[i] = "done" /\ outcome'[i] = outcome[i]]_vars

\* The remote call was rejected and the invocation returned that failure.
C12_Witness ==
    /\ Returned(1) /\ outcome[1].kind = "failure" /\ outcome[1].error = MsgPredict
    /\ envelope.res = NoResult

\* C13: the steps are ordered.  The person fetch starts only when the
\* invocation holds a handle; the garment fetch only after the person fetch
\* completed; the remote call only after the garment fetch completed, with
\* no helper rejected (and, in the tempfile variant, both files named); and
\* after a failed acquire or fetch the invocation only returns.
C13_StepsOrdered ==
    [][\A i \in Inv :
        /\ (pc[i] # "fetchPerson" /\ pc'[i] = "fetchPerson") =>
              /\ pc[i] \in {"idle", "connecting", "duplicating"}
              /\ client'[i] # Null
        /\ (pc[i] # "fetchGarment" /\ pc'[i] = "fetchGarment") =>
              /\ pc[i] = "fetchPerson" /\ client'[i] # Null
              /\ variant = "tempfile" => personTempPath'[i] # NoPath
        /\ (pc[i] # "predicting" /\ pc'[i] = "predicting") =>
              /\ pc[i] = "fetchGarment" /\ client'[i] # Null
              /\ err'[i] = NoMessage
              /\ variant = "tempfile" =>
                    personTempPath'[i] # NoPath /\ garmentTempPath'[i] # NoPath
        /\ (pc[i] \in {"connecting", "duplicating", "fetchPerson", "fetchGarment"}
              /\ err'[i] # NoMessage) => pc'[i] = "rejected"
        /\ pc[i] = "rejected" => pc'[i] \in {"rejected", "done"}
        /\ (pc[i] \in {"idle", "connecting", "duplicating", "fetchPerson",
                        "rejected"} /\ pc'[i] = "done") =>
              outcome'[i].kind = "failure" /\ envelope' = envelope]_vars

\* A source image fetch failed after the handle was acquired, and the
\* invocation returned the failure with no remote call ever answered.
C13_Witness ==
    /\ Returned(1) /\ outcome[1].kind = "failure" /\ outcome[1].error = MsgAxios
    /\ envelope.res = NoResult /\ nextHandle = 2

\* C14: the elapsed-time measurement of a success is stopped after the first
\* output was normalized into bytes: the processingTime of a success outcome
\* is the time from the start of the invocation to its return.
C14_TimeCoversNormalization ==
    [][\A i \in Inv :
        (outcome[i].kind = "none" /\ outcome'[i].kind = "success") =>
            outcome'[i].processingTime = now' - startTime[i]]_vars

\* C15: temporary files are scoped to one invocation.  While an invocation
\* has downloaded its person image and not yet sent it (it is fetching the
\* garment image), the file it created is in the temporary directory as it
\* wrote it: no other invocation has overwritten or deleted it.
C15_TempFilesScoped ==
    \A i \in Inv :
        (variant = "tempfile" /\ pc[i] = "fetchGarment") =>
            fs[personTempPath[i]] = i

\* C16: every invocation that was called returns in the end, with exactly
\* one outcome: a success or a failure, which never changes afterwards.
C16_EveryInvocationReturns ==
    /\ \A i \in Inv : (pc[i] # "idle") ~> Returned(i)
    /\ [](\A i \in Inv :
            Returned(i) <=> outcome[i].kind \in {"success", "failure"})
    /\ [][\A i \in Inv : Returned(i) => outcome'[i] = outcome[i]]_vars

\* One invocation returned a success after the other had failed and emptied
\* the cache that held the handle it was using.
C16_Witness ==
    \E i, j \in Inv :
        /\ Returned(j) /\ outcome[j].kind = "failure"
        /\ Returned(i) /\ outcome[i].kind = "success"
        /\ cachedClient = Null /\ nextHandle = 2

\* C17: invalidation is unconditional.  The step in which an invocation
\* returns a failure leaves the cache empty whether the invocation held the
\* cached handle, another handle or none, and it takes nothing from the
\* other invocations: they keep the handle they hold and stay where they are.
C17_InvalidationUnconditional ==
    [][\A i \in Inv :
        Fails(i) =>
            /\ client[i] = cachedClient => cachedClient' = Null
            /\ client[i] # cachedClient => cachedClient' = Null
            /\ client[i] = Null => cachedClient' = Null
            /\ \A j \in Inv \ {i} : client'[j] = client[j] /\ pc'[j] = pc[j]]_vars

\* An invocation failed before it had any handle (connect and duplicate
\* both failed) and the cache is empty, although the other invocation, still
\* in flight, had cached the handle it is using.
C17_Witness ==
    \E i, j \in Inv :
        /\ Returned(i) /\ outcome[i].kind = "failure"
        /\ outcome[i].error = MsgDuplicate
        /\ pc[j] \in {"fetchPerson", "fetchGarment", "predicting"}
        /\ client[j] # Null /\ nextHandle = 2
        /\ cachedClient = Null

\* C18: the cache holds nothing or a handle that a successful Client.connect
\* or Client.duplicate returned.  It changes only in the step that completes
\* an acquire, which stores the handle just made, and in the step that
\* returns a failure, which empties it; a call, a pending or failed connect
\* or duplicate, a fetch and a successful return leave it as it is.
C18_CacheWriters ==
    /\ [](cachedClient = Null \/ cachedClient \in 1..(nextHandle - 1))
    /\ [][cachedClient' # cachedClient =>
            \/ \E i \in Inv :
                  /\ Acquires(i)
                  /\ cachedClient' = nextHandle /\ nextHandle' = nextHandle + 1
            \/ \E i \in Inv : Fails(i) /\ cachedClient' = Null]_vars
    /\ [][\A i \in Inv :
            (\/ pc[i] = "idle" /\ pc'[i] = "connecting"
             \/ pc[i] = "connecting" /\ pc'[i] = "duplicating"
             \/ pc[i] = "duplicating" /\ pc'[i] = "rejected") =>
                  cachedClient' = cachedClient]_vars

\* A connect failed and its duplicate is pending while the cache holds the
\* handle another invocation's connect returned.
C18_Witness ==
    \E i, j \in Inv :
        /\ pc[i] = "duplicating"
        /\ client[j] # Null /\ cachedClient = client[j]

====
